---- MODULE Spec2Model ----
(***************************************************************************)
(* A model of appleLoops.py (class AppleLoops and its command line run):   *)
(* manifest resolution (build_master_list / process_plist / add_loop),     *)
(* URL construction (build_url), the completeness test (file_exists), the  *)
(* duplicate scan (duplicate_file / copy_duplicate) and the sequential     *)
(* download loop (main_processor / download / build_dmg).                  *)
(*                                                                         *)
(* Python strings are sequences of one-character strings, so that slicing, *)
(* splitting, prefix and suffix tests are computed as the code computes    *)
(* them.  None, False and '' (all falsy in Python) are the empty sequence. *)
(***************************************************************************)
EXTENDS Integers, Sequences, FiniteSets, TLC

VARIABLES
    \* ---- AppleLoops.__init__ arguments (fixed for one run)
    dry_run, mandatory_pkg, optional_pkg, caching_server, files_process,
    jss_mode, dmg_path, package_set, package_year,
    \* ---- AppleLoops instance state
    master_list,        \* self.master_list: sequence of Loop records
    download_amount,    \* self.download_amount: sequence of numbers
    \* ---- control state of the run
    pc,                 \* where the run is
    todo,               \* (year, plist) calls build_master_list still has to make
    cur,                \* the process_plist call in progress
    counter,            \* main_processor: counter
    download_counter,   \* main_processor: download_counter
    xfer,               \* download(): the transfer in progress
    \* ---- environment
    dirs,               \* directories below download_location (paths)
    files,              \* files below download_location: path -> size in bytes
    block_size,         \* os.stat(...).st_blksize of the filesystem
    faults,             \* failures the network and the tools may still produce
    \* ---- what the run did (observations)
    log,                \* sequence of events: requests, copies, pauses, ...
    seen,               \* every entry process_plist resolved, before the filter
    files0, dirs0,      \* the tree as it was when the run started
    \* ---- a single call of a pure function (the function specifications)
    arg, ret

config == <<dry_run, mandatory_pkg, optional_pkg, caching_server, files_process,
            jss_mode, dmg_path, package_set, package_year>>
control == <<pc, todo, cur, counter, download_counter, xfer>>
fsvars == <<dirs, files, block_size>>
env == <<fsvars, faults>>
ghost == <<log, seen, files0, dirs0>>
call == <<arg, ret>>
vars == <<config, master_list, download_amount, control, env, ghost, call>>

----------------------------------------------------------------------------
(* Python string and path primitives, on sequences of characters.          *)

None == <<>>

Digits == <<"0","1","2","3","4","5","6","7","8","9">>

\* str.startswith
StartsWith(s, pre) ==
    /\ Len(s) >= Len(pre)
    /\ SubSeq(s, 1, Len(pre)) = pre

\* str.endswith
EndsWith(s, suf) ==
    /\ Len(s) >= Len(suf)
    /\ SubSeq(s, Len(s) - Len(suf) + 1, Len(s)) = suf

\* s[n:]
DropFirst(s, n) == SubSeq(s, n + 1, Len(s))

\* s[-n:]
LastChars(s, n) == IF Len(s) <= n THEN s ELSE SubSeq(s, Len(s) - n + 1, Len(s))

\* sub in s
Contains(s, sub) ==
    \E i \in 1..(Len(s) - Len(sub) + 1) : SubSeq(s, i, i + Len(sub) - 1) = sub

\* str.rstrip(ch)
RECURSIVE RStrip(_, _)
RStrip(s, ch) ==
    IF s # <<>> /\ s[Len(s)] = ch THEN RStrip(SubSeq(s, 1, Len(s) - 1), ch) ELSE s

\* index of the first ch in s at or after position i, 0 when there is none
RECURSIVE Find(_, _, _)
Find(s, ch, i) ==
    IF i > Len(s) THEN 0 ELSE IF s[i] = ch THEN i ELSE Find(s, ch, i + 1)

\* index of the last ch in s, 0 when there is none
RECURSIVE RFind(_, _, _)
RFind(s, ch, i) ==
    IF i < 1 THEN 0 ELSE IF s[i] = ch THEN i ELSE RFind(s, ch, i - 1)

\* str.split(sep) for a one-character separator
RECURSIVE Split(_, _)
Split(s, sep) ==
    LET i == Find(s, sep, 1)
    IN  IF i = 0 THEN <<s>>
        ELSE <<SubSeq(s, 1, i - 1)>> \o Split(DropFirst(s, i), sep)

\* the characters of s that are not in the string chars
RECURSIVE Without(_, _)
Without(s, chars) ==
    IF s = <<>> THEN <<>>
    ELSE (IF \E j \in 1..Len(chars) : chars[j] = s[1] THEN <<>> ELSE <<s[1]>>)
         \o Without(Tail(s), chars)

\* os.path.basename
Basename(p) == DropFirst(p, RFind(p, "/", Len(p)))

\* os.path.splitext(p)[0]: the extension starts at the last dot of the last
\* component, provided a character other than a dot precedes it there
SplitExtRoot(p) ==
    LET slash == RFind(p, "/", Len(p))
        dot == RFind(p, ".", Len(p))
    IN  IF dot > slash + 1 /\ \E k \in (slash + 1)..(dot - 1) : p[k] # "."
        THEN SubSeq(p, 1, dot - 1)
        ELSE p

\* int(s) of a string of decimal digits
RECURSIVE ParseInt(_)
ParseInt(s) ==
    IF s = <<>> THEN 0
    ELSE 10 * ParseInt(SubSeq(s, 1, Len(s) - 1))
         + (CHOOSE d \in 0..9 : Digits[d + 1] = s[Len(s)])

IsDigits(s) == s # <<>> /\ \A i \in 1..Len(s) : \E d \in 1..10 : Digits[d] = s[i]

\* urlparse(url).netloc: what lies between '//' and the next '/'
Netloc(url) ==
    LET i == Find(url, "/", 1)
        rest == DropFirst(url, i + 1)
        j == Find(rest, "/", 1)
    IN  IF i = 0 \/ i = Len(url) \/ url[i + 1] # "/" THEN <<>>
        ELSE IF j = 0 THEN rest ELSE SubSeq(rest, 1, j - 1)

----------------------------------------------------------------------------
(* AppleLoops.__init__: the URL bases.                                     *)

\* self.base_url
base_url ==
    <<"h","t","t","p",":","/","/","a","u","d","i","o","c","o","n","t","e","n","t",
      "d","o","w","n","l","o","a","d",".","a","p","p","l","e",".","c","o","m","/",
      "l","p","1","0","_","m","s","3","_","c","o","n","t","e","n","t","_">>

\* self.source_url = '?source=%s' % urlparse(self.base_url).netloc
source_url == <<"?","s","o","u","r","c","e","=">> \o Netloc(base_url)

\* self.cache_base_url = '%s/lp10_ms3_content_' % self.caching_server
cache_base_url ==
    caching_server
    \o <<"/","l","p","1","0","_","m","s","3","_","c","o","n","t","e","n","t","_">>

\* self.caching_server = caching_server.rstrip('/') when the argument is given
InitCachingServer(a) == IF a # None THEN RStrip(a, "/") ELSE None

PkgExt == <<".","p","k","g">>

\* a faulty build_url: the proxy form for every filename
build_url_AnyFile(loop_year, filename) ==
    IF caching_server # <<>>
    THEN (cache_base_url \o loop_year) \o <<"/">> \o (filename \o source_url)
    ELSE (base_url \o loop_year) \o <<"/">> \o filename

\* AppleLoops.build_url
build_url(loop_year, filename) ==
    IF caching_server # <<>> /\ EndsWith(filename, PkgExt)
    THEN (cache_base_url \o loop_year) \o <<"/">> \o (filename \o source_url)
    ELSE (base_url \o loop_year) \o <<"/">> \o filename

----------------------------------------------------------------------------
(* The catalog feed (self.config), the sub-feed documents and the origin,  *)
(* as far as the run reads them.                                           *)

MaxPkgs == 2    \* entries read from each sub-feed document
MaxFaults == 2  \* failures the environment produces in one run

GB1 == <<"g","b","1",".","p","l","i","s","t">>
GB2 == <<"g","b","2",".","p","l","i","s","t">>
LP1 == <<"l","p","1",".","p","l","i","s","t">>
LP2 == <<"l","p","2",".","p","l","i","s","t">>
MS1 == <<"m","s","1",".","p","l","i","s","t">>
MS2 == <<"m","s","2",".","p","l","i","s","t">>

Y2016 == <<"2","0","1","6">>
Y2017 == <<"2","0","1","7">>

A_PKG == <<"a",".","p","k","g">>
B_PKG == <<"b",".","p","k","g">>
C_PKG == <<"c",".","p","k","g">>
D_PKG == <<"d",".","p","k","g">>
E_PKG == <<"e",".","p","k","g">>
BAR_PKG == <<"b","a","r",".","p","k","g">>

\* a declared name below the release directory of another year
LEGACY_C ==
    <<".",".","/","l","p","1","0","_","m","s","3","_","c","o","n","t","e","n","t",
      "_","2","0","1","3","/","c",".","p","k","g">>
\* a declared name below a directory that is no release directory
LEGACY_BAR == <<".",".","/","l","e","g","a","c","y","/","b","a","r",".","p","k","g">>

\* self.loop_feed_locations[pkg_set][year] = self.config['loop_feeds'][..][..]
loop_feed_locations(pkg_set, year) ==
    CASE pkg_set = "garageband" /\ year = Y2016 -> <<GB1>>
      [] pkg_set = "garageband" /\ year = Y2017 -> <<GB2>>
      [] pkg_set = "logicpro" /\ year = Y2016 -> <<LP1>>
      [] pkg_set = "logicpro" /\ year = Y2017 -> <<LP2>>
      [] pkg_set = "mainstage" /\ year = Y2016 -> <<MS1, MS2>>
      [] pkg_set = "mainstage" /\ year = Y2017 -> <<MS2>>
      [] OTHER -> <<>>

\* a size of the feed: an integer ("int") or a string ("str"); v is its text
IntSize(digits) == [t |-> "int", v |-> digits]
StrSize(text) == [t |-> "str", v |-> text]

\* one entry of data['Packages']; IsMandatory is <<>> when the key is absent
Pkg(name, mand, size) ==
    [DownloadName |-> name, IsMandatory |-> mand, DownloadSize |-> size]

\* data['Packages'] of each sub-feed, in the order the dictionary is iterated
Document(plist) ==
    CASE plist = GB1 ->
           << Pkg(A_PKG, <<TRUE>>, IntSize(<<"8","2","9","2">>)),
              Pkg(B_PKG, <<>>, StrSize(<<"4",".","0","9","6">>)),
              Pkg(E_PKG, <<FALSE>>, IntSize(<<"1","2","2","8","8">>)) >>
      [] plist = LP1 ->
           << Pkg(A_PKG, <<TRUE>>, IntSize(<<"8","2","9","2">>)),
              Pkg(D_PKG, <<FALSE>>, StrSize(<<"5","0","0","0">>)),
              Pkg(B_PKG, <<TRUE>>, StrSize(<<"4",".","0","9","6">>)) >>
      [] plist = GB2 ->
           << Pkg(LEGACY_C, <<TRUE>>, IntSize(<<"1","2","2","8","8">>)),
              Pkg(D_PKG, <<>>, StrSize(<<"5","0","0","0">>)),
              Pkg(E_PKG, <<FALSE>>, IntSize(<<"1","2","2","8","8">>)) >>
      [] plist = LP2 ->
           << Pkg(E_PKG, <<TRUE>>, IntSize(<<"1","2","2","8","8">>)),
              Pkg(LEGACY_BAR, <<FALSE>>, IntSize(<<"5","0","0","0">>)),
              Pkg(D_PKG, <<>>, StrSize(<<"5","0","0","0">>)) >>
      [] plist = MS1 ->
           << Pkg(A_PKG, <<TRUE>>, IntSize(<<"8","2","9","2">>)),
              Pkg(LEGACY_C, <<FALSE>>, IntSize(<<"1","2","2","8","8">>)) >>
      [] plist = MS2 ->
           << Pkg(LEGACY_C, <<TRUE>>, IntSize(<<"1","2","2","8","8">>)),
              Pkg(D_PKG, <<>>, StrSize(<<"5","0","0","0">>)) >>
      [] OTHER -> <<>>

Packages(plist) ==
    LET d == Document(plist)
    IN  SubSeq(d, 1, IF Len(d) < MaxPkgs THEN Len(d) ELSE MaxPkgs)

\* what the origin holds for a file name: the Content-Length header it sends
\* and the number of bytes of the body
Origin(name) ==
    CASE name = A_PKG -> [header |-> <<" ","8","3","0","0">>, body |-> 8300]
      [] name = B_PKG -> [header |-> <<"4","0","0","0">>, body |-> 4000]
      [] name = C_PKG -> [header |-> <<"1","2","3","0","0">>, body |-> 12300]
      [] name = D_PKG -> [header |-> <<"5","0","0","0">>, body |-> 5000]
      [] OTHER -> [header |-> <<"1","2","2","8","8">>, body |-> 12288]

\* the file a URL names: the last path component, without the query
UrlFile(url) ==
    LET q == Find(url, "?", 1)
    IN  Basename(IF q = 0 THEN url ELSE SubSeq(url, 1, q - 1))

----------------------------------------------------------------------------
(* Manifest resolution: build_master_list, process_plist, add_loop.        *)

RECURSIVE Concat(_)
Concat(ss) == IF ss = <<>> THEN <<>> ELSE Head(ss) \o Concat(Tail(ss))

InSeq(x, s) == \E i \in 1..Len(s) : s[i] = x

\* a faulty traversal: the years are the outer loop, the package sets the
\* inner one
build_master_list_YearFirst ==
    LET Plists(pkg_set, year) ==
            LET package_plist == loop_feed_locations(pkg_set, year)
                Listed(plist) == InSeq(plist, package_plist)
            IN  IF files_process # <<>>
                THEN SelectSeq(files_process, Listed)
                ELSE package_plist
        Calls(pkg_set, year) ==
            [k \in 1..Len(Plists(pkg_set, year)) |-> <<year, Plists(pkg_set, year)[k]>>]
        ForYear(year) ==
            Concat([i \in 1..Len(package_set) |-> Calls(package_set[i], year)])
    IN  Concat([j \in 1..Len(package_year) |-> ForYear(package_year[j])])

\* a faulty traversal: an explicit file is processed under every selected
\* package set and year, listed there or not
build_master_list_NoScope ==
    LET Plists(pkg_set, year) ==
            IF files_process # <<>>
            THEN files_process
            ELSE loop_feed_locations(pkg_set, year)
        Calls(pkg_set, year) ==
            [k \in 1..Len(Plists(pkg_set, year)) |-> <<year, Plists(pkg_set, year)[k]>>]
        ForSet(pkg_set) ==
            Concat([j \in 1..Len(package_year) |-> Calls(pkg_set, package_year[j])])
    IN  Concat([i \in 1..Len(package_set) |-> ForSet(package_set[i])])

\* build_master_list: the process_plist(year, plist) calls, in order
build_master_list ==
    LET Plists(pkg_set, year) ==
            LET package_plist == loop_feed_locations(pkg_set, year)
                Listed(plist) == InSeq(plist, package_plist)
            IN  IF files_process # <<>>
                THEN SelectSeq(files_process, Listed)
                ELSE package_plist
        Calls(pkg_set, year) ==
            [k \in 1..Len(Plists(pkg_set, year)) |-> <<year, Plists(pkg_set, year)[k]>>]
        ForSet(pkg_set) ==
            Concat([j \in 1..Len(package_year) |-> Calls(pkg_set, package_year[j])])
    IN  Concat([i \in 1..Len(package_set) |-> ForSet(package_set[i])])

\* self.alt_loop_feed_base_url
alt_loop_feed_base_url ==
    <<"h","t","t","p","s",":","/","/","r","a","w",".","g","i","t","h","u","b","u",
      "s","e","r","c","o","n","t","e","n","t",".","c","o","m","/","c","a","r","l",
      "a","s","h","l","e","y","/","a","p","p","l","e","L","o","o","p","s","/","m",
      "a","s","t","e","r","/","l","p","1","0","_","m","s","3","_","c","o","n","t",
      "e","n","t","_">>

LegacyMarker == <<".",".","/">>
LegacyOrigin ==
    <<"h","t","t","p",":","/","/","a","u","d","i","o","c","o","n","t","e","n","t",
      "d","o","w","n","l","o","a","d",".","a","p","p","l","e",".","c","o","m","/">>
CatalogMarker == <<"l","p","1","0","_","m","s","3">>

\* str.strip() of a header value
RECURSIVE LStrip(_, _)
LStrip(s, ch) == IF s # <<>> /\ s[1] = ch THEN LStrip(Tail(s), ch) ELSE s
Strip(s) == LStrip(RStrip(s, " "), " ")

\* an event of the run, for the log
Event(e, url, path, n) == [e |-> e, url |-> url, path |-> path, n |-> n]

\* process_plist, lines 311-330: name, url, mandatory and year of an entry.
\* years is what the list comprehension of line 330 yields; taking its
\* element [0] raises IndexError when it is empty.
Resolve(loop_year, pkg) ==
    LET declared == pkg.DownloadName
        legacy == StartsWith(declared, LegacyMarker)
        url == IF legacy THEN LegacyOrigin \o DropFirst(declared, 3)
               ELSE build_url(loop_year, declared)
        name == IF legacy THEN Basename(declared) ELSE declared
        HasMarker(x) == Contains(x, CatalogMarker)
        segs == SelectSeq(Split(url, "/"), HasMarker)
    IN  [name |-> name,
         url |-> url,
         mandatory |-> IF pkg.IsMandatory = <<>> THEN FALSE ELSE pkg.IsMandatory[1],
         years |-> [i \in 1..Len(segs) |-> LastChars(segs[i], 4)]]

\* add_loop, lines 248-251: package_size.replace('.', ''), for a string only
NormalSize(package_size) ==
    IF package_size.t = "str"
    THEN [package_size EXCEPT !.v = Without(@, <<".">>)]
    ELSE package_size

Loop(name, url, mandatory, size, year, loop_for, plist) ==
    [pkg_name |-> name, pkg_url |-> url, pkg_mandatory |-> mandatory,
     pkg_size |-> size, pkg_year |-> year, pkg_loop_for |-> loop_for,
     pkg_plist |-> plist]

\* a faulty add_loop: the record is appended without the membership test
add_loop_Always(list, name, url, mandatory, size, year, loop_for, plist) ==
    Append(list, Loop(name, url, mandatory, NormalSize(size), year, loop_for, plist))

\* add_loop: the list after the call
add_loop(list, name, url, mandatory, size, year, loop_for, plist) ==
    LET loop == Loop(name, url, mandatory, NormalSize(size), year, loop_for, plist)
    IN  IF ~InSeq(loop, list) THEN Append(list, loop) ELSE list

\* a faulty filter: the optional-only branch tests the wrong way round
Inserted_Swapped(mandatory) ==
    \/ mandatory_pkg /\ ~optional_pkg /\ mandatory
    \/ optional_pkg /\ ~mandatory_pkg /\ mandatory
    \/ ~mandatory_pkg /\ ~optional_pkg

\* a faulty filter: both flags together filter nothing
Inserted_Both(mandatory) ==
    \/ mandatory_pkg /\ ~optional_pkg /\ mandatory
    \/ optional_pkg /\ ~mandatory_pkg /\ ~mandatory
    \/ mandatory_pkg = optional_pkg

\* process_plist, lines 343-356: is the entry handed to add_loop?
Inserted(mandatory) ==
    \/ mandatory_pkg /\ ~optional_pkg /\ mandatory
    \/ optional_pkg /\ ~mandatory_pkg /\ ~mandatory
    \/ ~mandatory_pkg /\ ~optional_pkg

----------------------------------------------------------------------------
(* The run: main_processor, first part (manifest resolution).              *)

NoCall == [fn |-> "none"]
NoXfer == [active |-> FALSE]

\* the run has ended with an exception that nothing catches (a traceback)
Raise(what) ==
    /\ pc' = "crashed"
    /\ log' = Append(log, Event(what, <<>>, <<>>, 0))

\* main_processor, line 700: build_master_list is entered
main_processor ==
    /\ pc = "start"
    /\ pc' = "build"
    /\ todo' = build_master_list
    /\ UNCHANGED <<config, master_list, download_amount, cur, counter,
                   download_counter, xfer, env, ghost, call>>

\* the copy of a sub-feed the mirror (the repository of the tool) serves
Mirror(plist) == Packages(plist)

\* a faulty failover: the mirror is requested whatever the first request did
failing_over_Always(primary) == TRUE

\* process_plist, lines 294-298: the mirror is requested when the request of
\* the sub-feed raised
failing_over(primary) == ~primary

\* process_plist, lines 273-308: the sub-feed is requested, from the mirror
\* when the first request raises, and decoded
FetchPlist ==
    /\ pc = "build"
    /\ todo # <<>>
    /\ LET loop_year == todo[1][1]
           plist == todo[1][2]
           plist_url == build_url(loop_year, plist)
           alt_plist_url == alt_loop_feed_base_url \o loop_year \o <<"/">> \o plist
           entered(source, pkgs) ==
               [loop_year |-> loop_year, plist |-> plist, source |-> source,
                pkgs |-> pkgs]
       IN  \E primary \in BOOLEAN, mirror \in BOOLEAN :
              LET over == failing_over(primary)
                  failed == (IF primary THEN 0 ELSE 1)
                            + (IF over /\ ~mirror THEN 1 ELSE 0)
                  raised == IF primary THEN <<>>
                            ELSE << Event("request failed", plist_url, <<>>, 0) >>
              IN  /\ ~over => mirror
                  /\ failed <= faults
                  /\ faults' = faults - failed
                  /\ IF ~over
                     THEN /\ log' = Append(log, Event("feed", plist_url, <<>>, 0))
                          /\ pc' = "plist"
                          /\ cur' = entered("primary", Packages(plist))
                     ELSE IF mirror
                     THEN /\ log' = log \o << Event("feed", plist_url, <<>>, 0) >>
                                        \o raised
                                        \o << Event("mirror", alt_plist_url, <<>>, 0) >>
                          /\ pc' = "plist"
                          /\ cur' = entered("mirror", Mirror(plist))
                     ELSE /\ log' = log \o << Event("feed", plist_url, <<>>, 0) >>
                                        \o raised
                                        \o << Event("mirror", alt_plist_url, <<>>, 0),
                                              Event("raise URLError", <<>>, <<>>, 0) >>
                          /\ pc' = "crashed"
                          /\ cur' = cur
    /\ UNCHANGED <<config, master_list, download_amount, todo, counter,
                   download_counter, xfer, fsvars, seen, files0, dirs0, call>>

\* a faulty size probe: no fallback, the text of the header is taken even
\* when the request gave none
size_NoFallback(header, url, pkg) ==
    IF header THEN StrSize(Strip(Origin(UrlFile(url)).header)) ELSE StrSize(<<>>)

\* process_plist, lines 333-340: the size of an entry; header tells whether
\* the request for the package URL returned a Content-Length header
size(header, url, pkg) ==
    IF header
    THEN StrSize(Strip(Origin(UrlFile(url)).header))
    ELSE pkg.DownloadSize

\* process_plist, lines 332-356, for the entry at the head of cur.pkgs: the
\* size is taken, the filter applied and the record added; events is what
\* the requests of the step leave in the log
Entry(header, events) ==
    LET pkg == Head(cur.pkgs)
        r == Resolve(cur.loop_year, pkg)
        _plist == SplitExtRoot(cur.plist)
        loop_for == Without(SplitExtRoot(cur.plist), Digits)
        year == r.years[1]
        _size == size(header, r.url, pkg)
    IN  /\ log' = log \o events
        /\ seen' = Append(seen,
              [declared |-> pkg.DownloadName,
               loop_year |-> cur.loop_year,
               header |-> header,
               source |-> cur.source,
               loop |-> Loop(r.name, r.url, r.mandatory, NormalSize(_size),
                             year, loop_for, _plist)])
        /\ master_list' =
              IF Inserted(r.mandatory)
              THEN add_loop(master_list, r.name, r.url, r.mandatory, _size,
                            year, loop_for, _plist)
              ELSE master_list
        /\ cur' = [cur EXCEPT !.pkgs = Tail(@)]
        /\ pc' = pc

\* process_plist, lines 310-356: one entry of data['Packages']
ProcessPkg ==
    /\ pc = "plist"
    /\ cur.pkgs # <<>>
    /\ LET r == Resolve(cur.loop_year, Head(cur.pkgs))
       IN  IF r.years = <<>>
           THEN /\ Raise("raise IndexError")
                /\ UNCHANGED <<master_list, cur, seen, faults>>
           ELSE \E header \in BOOLEAN :
                  /\ header \/ faults > 0
                  /\ faults' = IF header THEN faults ELSE faults - 1
                  /\ Entry(header, << Event("probe", r.url, <<>>, 0) >>)
    /\ UNCHANGED <<config, download_amount, todo, counter, download_counter,
                   xfer, fsvars, files0, dirs0, call>>

\* process_plist, line 359, and the return to build_master_list's loops
EndPlist ==
    /\ pc = "plist"
    /\ cur.pkgs = <<>>
    /\ pc' = "build"
    /\ todo' = Tail(todo)
    /\ UNCHANGED <<config, master_list, download_amount, cur, counter,
                   download_counter, xfer, env, ghost, call>>

\* main_processor, lines 703-704: the manifest is built, the loop starts
BuildDone ==
    /\ pc = "build"
    /\ todo = <<>>
    /\ pc' = "loop"
    /\ counter' = 1
    /\ download_counter' = 0
    /\ UNCHANGED <<config, master_list, download_amount, todo, cur, xfer,
                   env, ghost, call>>

NextBuild == main_processor \/ FetchPlist \/ ProcessPkg \/ EndPlist \/ BuildDone

\* the arguments of a run, as main() hands them to AppleLoops()
CacheArgs == { None, <<"h","t","t","p",":","/","/","c",":","8","/">> }
PackageSets == { <<"garageband">>, <<"garageband", "logicpro">>,
                 <<"logicpro", "garageband">>, <<"garageband", "garageband">> }
PackageYears == { <<Y2016>>, <<Y2016, Y2017>>, <<Y2017, Y2016>> }
FilesProcess == { <<>>, <<GB1, LP1>>, <<GB2, LP1>> }

InitState ==
    /\ master_list = <<>>
    /\ download_amount = <<>>
    /\ pc = "start"
    /\ todo = <<>>
    /\ cur = [loop_year |-> <<>>, plist |-> <<>>, source |-> "", pkgs |-> <<>>]
    /\ counter = 0
    /\ download_counter = 0
    /\ xfer = NoXfer
    /\ log = <<>>
    /\ seen = <<>>
    /\ arg = NoCall
    /\ ret = <<>>

\* manifest resolution under every combination of the filter flags, the
\* caching server, the explicit sub-feed list and the selected sets and years
InitBuild ==
    /\ dry_run = TRUE
    /\ mandatory_pkg \in BOOLEAN
    /\ optional_pkg \in BOOLEAN
    /\ \E a \in CacheArgs : caching_server = InitCachingServer(a)
    /\ files_process \in FilesProcess
    /\ jss_mode = FALSE
    /\ dmg_path = <<>>
    /\ package_set \in PackageSets
    /\ package_year \in PackageYears
    /\ dirs = {}
    /\ files = <<>>
    /\ block_size = 4096
    /\ faults = MaxFaults
    /\ dirs0 = dirs
    /\ files0 = files
    /\ InitState

SpecBuild == InitBuild /\ [][NextBuild]_vars

\* manifest resolution for a package set the catalog gives two sub-feeds for
\* one year, with self.files_process as the class takes it: any list, in
\* any order, of files listed under a selected set and year or not
SubsetSets == { <<"mainstage">>, <<"mainstage", "garageband">>,
                <<"garageband", "mainstage">> }
SubsetFiles == { <<>>, <<MS1, MS2>>, <<MS2, MS1>>, <<MS1, GB1>>, <<LP1>>,
                 <<MS2, LP1>>, <<MS1, MS2, MS1>> }

InitSubset ==
    /\ dry_run = TRUE
    /\ mandatory_pkg = FALSE
    /\ optional_pkg = FALSE
    /\ caching_server = None
    /\ files_process \in SubsetFiles
    /\ jss_mode = FALSE
    /\ dmg_path = <<>>
    /\ package_set \in SubsetSets
    /\ package_year \in PackageYears
    /\ dirs = {}
    /\ files = <<>>
    /\ block_size = 4096
    /\ faults = MaxFaults
    /\ dirs0 = dirs
    /\ files0 = files
    /\ InitState

SpecSubset == InitSubset /\ [][NextBuild]_vars

----------------------------------------------------------------------------
(* The download tree, file_exists, duplicate_file, local_directory.        *)
(* A path is the sequence of its components below self.download_location.  *)

MANDATORY == <<"m","a","n","d","a","t","o","r","y">>
OPTIONAL == <<"o","p","t","i","o","n","a","l">>

\* int(loop.pkg_size), float(loop.pkg_size)
SizeOf(loop) == ParseInt(loop.pkg_size.v)

\* os.path.exists, for the files of the tree
Exists(path) == path \in DOMAIN files

\* a faulty file_exists: byte counts are compared instead of block counts
file_exists_Bytes(loop, local_file) ==
    IF Exists(local_file)
    THEN IF files[local_file] >= SizeOf(loop) THEN "True" ELSE "False"
    ELSE "None"

\* a faulty file_exists: the local file must exceed the declared block count
file_exists_Strict(loop, local_file) ==
    IF Exists(local_file)
    THEN IF files[local_file] \div block_size > SizeOf(loop) \div block_size
         THEN "True" ELSE "False"
    ELSE "None"

\* a faulty file_exists: no file is ever found
file_exists_Missing(loop, local_file) == "None"

\* AppleLoops.file_exists: "True", "False", or "None" when the function falls
\* off its end
file_exists(loop, local_file) ==
    IF Exists(local_file)
    THEN LET remote_blocks == SizeOf(loop) \div block_size
             local_blocks == files[local_file] \div block_size
         IN  IF local_blocks >= remote_blocks THEN "True" ELSE "False"
    ELSE "None"

\* the truth value Python gives a result of file_exists or duplicate_file
Truthy(r) == r = "True"

\* a faulty local_directory: the layout by product family and year that
\* the code has in comments
local_directory_ByYear(loop) ==
    LET directory_path == <<loop.pkg_loop_for, loop.pkg_year>>
    IN  IF loop.pkg_mandatory
        THEN directory_path \o <<MANDATORY>>
        ELSE directory_path \o <<OPTIONAL>>

\* AppleLoops.local_directory
local_directory(loop) ==
    LET directory_path == <<loop.pkg_plist>>
    IN  IF loop.pkg_mandatory
        THEN directory_path \o <<MANDATORY>>
        ELSE directory_path \o <<OPTIONAL>>

\* os.path.join(local_directory, loop.pkg_name)
LocalFile(loop) == local_directory(loop) \o <<loop.pkg_name>>

\* glob('%s/*/*/*/' % self.download_location): the directories three levels
\* below the root, in any order
GlobPaths ==
    LET found == { d \in dirs : Len(d) = 3 }
    IN  { g \in [1..Cardinality(found) -> found] :
            \A i, j \in 1..Cardinality(found) : i # j => g[i] # g[j] }

\* a faulty duplicate_file: a duplicate is reported whatever the tree holds
duplicate_file_Always(loop, glob_path) == "True"

\* AppleLoops.duplicate_file, for the listing glob returned: the loop returns
\* in its first iteration
duplicate_file(loop, glob_path) ==
    IF glob_path = <<>> THEN "None"
    ELSE IF Truthy(file_exists(loop, glob_path[1] \o <<loop.pkg_name>>))
         THEN "True"
         ELSE "False"

\* make_storage_location: os.makedirs(folder) when it is no directory yet
make_storage_location(folder) ==
    dirs \cup { SubSeq(folder, 1, n) : n \in 1..Len(folder) }

RECURSIVE Sum(_)
Sum(s) == IF s = <<>> THEN 0 ELSE Head(s) + Sum(Tail(s))

Min(a, b) == IF a < b THEN a ELSE b

ChunkSize == 8192

\* the three tests of self.dry_run: copy_duplicate line 507, download line
\* 552, build_dmg line 658
\* a faulty copy_duplicate: the copy is only ever reported
copy_dry_run_Always == TRUE

copy_dry_run == dry_run
download_dry_run == dry_run

\* a faulty build_dmg: the utility is invoked whatever the mode
dmg_dry_run_Ignored == FALSE

dmg_dry_run == dry_run

----------------------------------------------------------------------------
(* The run: main_processor, second part (the loop over the manifest).      *)

\* main_processor, lines 706-707 and 716: the scan reports a duplicate and
\* copy_duplicate handles the entry
CopyDuplicate ==
    /\ pc = "loop"
    /\ counter <= Len(master_list)
    /\ \E glob_path \in GlobPaths :
         LET loop == master_list[counter]
             local_file == LocalFile(loop)
             hits == SelectSeq(glob_path,
                       LAMBDA path : Truthy(file_exists(loop, path \o <<loop.pkg_name>>)))
         IN  /\ Truthy(duplicate_file(loop, glob_path))
             /\ IF Truthy(file_exists(loop, local_file))
                THEN /\ log' = Append(log, Event("skip", <<>>, local_file, counter))
                     /\ UNCHANGED <<dirs, files>>
                ELSE IF hits = <<>>
                THEN UNCHANGED <<log, dirs, files>>
                ELSE LET existing_copy == hits[1] \o <<loop.pkg_name>>
                     IN  IF ~copy_dry_run
                         THEN /\ dirs' = make_storage_location(local_directory(loop))
                              /\ files' = (local_file :> files[existing_copy]) @@ files
                              /\ log' = Append(log, Event("copy", <<>>, local_file, counter))
                         ELSE /\ log' = Append(log,
                                     Event("would copy", <<>>, local_file, counter))
                              /\ UNCHANGED <<dirs, files>>
    /\ counter' = counter + 1
    /\ UNCHANGED <<config, master_list, download_amount, pc, todo, cur,
                   download_counter, xfer, block_size, faults, seen, files0,
                   dirs0, call>>

\* main_processor, lines 708-716, and download up to the opening of the local
\* file: the scan reports nothing, the entry is skipped, reported (dry run)
\* or its transfer starts
Download ==
    /\ pc = "loop"
    /\ counter <= Len(master_list)
    /\ \E glob_path \in GlobPaths, opened \in BOOLEAN :
         LET loop == master_list[counter]
             local_file == LocalFile(loop)
             complete == Truthy(file_exists(loop, local_file))
         IN  /\ ~Truthy(duplicate_file(loop, glob_path))
             /\ IF download_dry_run
                THEN /\ opened
                     /\ IF ~complete
                        THEN /\ download_amount' = Append(download_amount, SizeOf(loop))
                             /\ log' = Append(log,
                                   Event("would download", loop.pkg_url, local_file, counter))
                        ELSE /\ log' = Append(log, Event("skip", <<>>, local_file, counter))
                             /\ UNCHANGED download_amount
                     /\ counter' = counter + 1
                     /\ download_counter' = download_counter + 1
                     /\ UNCHANGED <<pc, xfer, dirs, files, faults>>
                ELSE /\ dirs' = make_storage_location(local_directory(loop))
                     /\ IF complete
                        THEN /\ opened
                             /\ log' = Append(log, Event("skip", <<>>, local_file, counter))
                             /\ counter' = counter + 1
                             /\ download_counter' = download_counter + 1
                             /\ UNCHANGED <<pc, xfer, files, faults, download_amount>>
                        ELSE IF opened
                        THEN /\ files' = (local_file :> 0) @@ files
                             /\ xfer' = [active |-> TRUE, path |-> local_file,
                                         remaining |-> Origin(UrlFile(loop.pkg_url)).body,
                                         bytes_so_far |-> 0]
                             /\ pc' = "xfer"
                             /\ log' = Append(log,
                                   Event("body", loop.pkg_url, local_file, counter))
                             /\ UNCHANGED <<counter, download_counter, faults,
                                            download_amount>>
                        ELSE /\ faults > 0
                             /\ faults' = faults - 1
                             /\ pc' = "crashed"
                             /\ log' = log \o
                                   << Event("body", loop.pkg_url, local_file, counter),
                                      Event("raise URLError", loop.pkg_url, local_file,
                                            counter) >>
                             /\ UNCHANGED <<counter, download_counter, xfer, files,
                                            download_amount>>
    /\ UNCHANGED <<config, master_list, todo, cur, block_size, seen, files0,
                   dirs0, call>>

\* a faulty finally clause: no pause after the ledger is updated
finally_events_NoPause(loop) ==
    << Event("close", loop.pkg_url, xfer.path, counter),
       Event("ledger", <<>>, xfer.path, SizeOf(loop)) >>

\* download, lines 604-614: what the finally clause does, in order, when a
\* request is open: request.close(), the append to the ledger, sleep(pause)
finally_events(loop) ==
    << Event("close", loop.pkg_url, xfer.path, counter),
       Event("ledger", <<>>, xfer.path, SizeOf(loop)),
       Event("pause", <<>>, <<>>, counter) >>

\* download, lines 604-614: the finally clause
Finally(loop) ==
    /\ download_amount' = Append(download_amount, SizeOf(loop))
    /\ xfer' = NoXfer

\* download, lines 586-594: round(bytes_so_far / pkg_size * 100.0, 2), capped
\* at 100.0, in hundredths of a percent; pkg_size is not 0
percent(bytes_so_far, pkg_size) ==
    LET rounded == (2 * bytes_so_far * 10000 + pkg_size) \div (2 * pkg_size)
    IN  IF rounded >= 10000 THEN 10000 ELSE rounded

\* download, lines 597-603: the progress line, unless jss_mode is on
progress_output(loop, bytes_so_far) ==
    IF ~jss_mode
    THEN << Event("progress", loop.pkg_url, xfer.path,
                  percent(bytes_so_far, SizeOf(loop))) >>
    ELSE <<>>

\* download, lines 570-614: one request.read(8192) and what follows it
ReadChunk ==
    /\ pc = "xfer"
    /\ LET loop == master_list[counter]
           n == Min(ChunkSize, xfer.remaining)
       IN  \E read \in BOOLEAN :
             IF ~read
             THEN \* request.read raises: the finally clause runs, the
                  \* exception leaves download and main_processor
                  /\ faults > 0
                  /\ faults' = faults - 1
                  /\ Finally(loop)
                  /\ pc' = "crashed"
                  /\ log' = log \o finally_events(loop)
                                \o << Event("raise IOError", loop.pkg_url, xfer.path,
                                            counter) >>
                  /\ UNCHANGED <<files, counter, download_counter>>
             ELSE IF n = 0
             THEN \* the empty buffer: break, finally, back in main_processor
                  /\ Finally(loop)
                  /\ pc' = "loop"
                  /\ counter' = counter + 1
                  /\ download_counter' = download_counter + 1
                  /\ log' = log \o finally_events(loop)
                  /\ UNCHANGED <<files, faults>>
             ELSE IF SizeOf(loop) = 0
             THEN \* the chunk is written, then float(bytes_so_far) /
                  \* float(loop.pkg_size) raises ZeroDivisionError
                  /\ files' = [files EXCEPT ![xfer.path] = @ + n]
                  /\ Finally(loop)
                  /\ pc' = "crashed"
                  /\ log' = log \o << Event("chunk", loop.pkg_url, xfer.path, n) >>
                                \o finally_events(loop)
                                \o << Event("raise ZeroDivisionError", loop.pkg_url,
                                            xfer.path, counter) >>
                  /\ UNCHANGED <<counter, download_counter, faults>>
             ELSE /\ files' = [files EXCEPT ![xfer.path] = @ + n]
                  /\ xfer' = [xfer EXCEPT !.remaining = @ - n,
                                          !.bytes_so_far = @ + n]
                  /\ log' = log \o << Event("chunk", loop.pkg_url, xfer.path, n) >>
                                \o progress_output(loop, xfer.bytes_so_far + n)
                  /\ UNCHANGED <<pc, counter, download_counter, faults,
                                 download_amount>>
    /\ UNCHANGED <<config, master_list, todo, cur, dirs, block_size, seen,
                   files0, dirs0, call>>

\* main_processor, lines 718-733: the end-of-run report and build_dmg
Report ==
    /\ pc = "loop"
    /\ counter > Len(master_list)
    /\ LET total == Sum(download_amount)
           report == IF dry_run \/ Len(download_amount) >= 1
                     THEN << Event("report", <<>>, <<>>, total),
                             Event("report count", <<>>, <<>>, download_counter) >>
                     ELSE <<>>
       IN  \E built \in BOOLEAN :
             IF dmg_path = <<>>
             THEN /\ built
                  /\ log' = log \o report
                  /\ pc' = "done"
                  /\ UNCHANGED faults
             ELSE IF dmg_dry_run
             THEN /\ built
                  /\ log' = log \o report \o << Event("would build", dmg_path, <<>>, 0) >>
                  /\ pc' = "done"
                  /\ UNCHANGED faults
             ELSE IF built
             THEN /\ log' = log \o report \o << Event("hdiutil", dmg_path, <<>>, 0) >>
                  /\ pc' = "done"
                  /\ UNCHANGED faults
             ELSE /\ faults > 0
                  /\ faults' = faults - 1
                  /\ log' = log \o report
                               \o << Event("hdiutil", dmg_path, <<>>, 0),
                                     Event("raise CalledProcessError", dmg_path, <<>>, 0) >>
                  /\ pc' = "crashed"
    /\ UNCHANGED <<config, master_list, download_amount, todo, cur, counter,
                   download_counter, xfer, fsvars, seen, files0, dirs0, call>>

Next == NextBuild \/ CopyDuplicate \/ Download \/ ReadChunk \/ Report

\* the trees a run may find below its download location
Dir(a, b) == { <<a>>, <<a, b>> }
OLD == <<"o","l","d">>
CACHE == <<"c","a","c","h","e">>
SUB == <<"s","u","b">>
TMP == <<"t","m","p">>
GB1_DIR == <<"g","b","1">>
Trees ==
    { [dirs |-> {}, files |-> <<>>],
      \* a.pkg of gb1 is there, whole, or cut short at one or two blocks
      [dirs |-> Dir(GB1_DIR, MANDATORY),
       files |-> (<<GB1_DIR, MANDATORY, A_PKG>> :> 8300)],
      [dirs |-> Dir(GB1_DIR, MANDATORY),
       files |-> (<<GB1_DIR, MANDATORY, A_PKG>> :> 8192)],
      [dirs |-> Dir(GB1_DIR, MANDATORY),
       files |-> (<<GB1_DIR, MANDATORY, A_PKG>> :> 4096)],
      \* a.pkg lies in a directory three levels down
      [dirs |-> Dir(OLD, CACHE) \cup { <<OLD, CACHE, SUB>> },
       files |-> (<<OLD, CACHE, SUB, A_PKG>> :> 8300)],
      \* two directories three levels down, a.pkg in one of them, and
      \* b.pkg of gb1 in place
      [dirs |-> Dir(OLD, CACHE) \cup { <<OLD, CACHE, SUB>>, <<OLD, CACHE, TMP>> }
                \cup Dir(GB1_DIR, OPTIONAL),
       files |-> (<<OLD, CACHE, SUB, A_PKG>> :> 8300)
                 @@ (<<GB1_DIR, OPTIONAL, B_PKG>> :> 4096)],
      \* a.pkg of gb1 in place, and a.pkg in a directory three levels down
      [dirs |-> Dir(OLD, CACHE) \cup { <<OLD, CACHE, SUB>> }
                \cup Dir(GB1_DIR, MANDATORY),
       files |-> (<<OLD, CACHE, SUB, A_PKG>> :> 8300)
                 @@ (<<GB1_DIR, MANDATORY, A_PKG>> :> 8300)] }

DMG == <<"/","t","m","p","/","x",".","d","m","g">>

\* a whole run, unfiltered, of garageband and logicpro content of 2016
Init ==
    /\ dry_run \in BOOLEAN
    /\ mandatory_pkg = FALSE
    /\ optional_pkg = FALSE
    /\ caching_server = None
    /\ files_process = <<>>
    /\ \E o \in { <<FALSE, <<>> >>, <<TRUE, DMG>> } : jss_mode = o[1] /\ dmg_path = o[2]
    /\ package_set \in { <<"garageband", "logicpro">>, <<"garageband", "garageband">> }
    /\ package_year = <<Y2016>>
    /\ \E t \in Trees : dirs = t.dirs /\ files = t.files
    /\ block_size = 4096
    /\ faults = MaxFaults
    /\ dirs0 = dirs
    /\ files0 = files
    /\ InitState

Spec == Init /\ [][Next]_vars

----------------------------------------------------------------------------
(* Runs that are interrupted (SIGINT: signal_handler raises SystemExit at  *)
(* the point the run has reached), and the run that follows a run cut in a *)
(* transfer.  An interrupt draws on the same budget as a failure.          *)

\* signal_handler: sys.exit() raised where the run is; n is the length of
\* the manifest at that moment
Interrupted(path) == Event("interrupt", <<>>, path, Len(master_list))

\* the signal arrives while process_plist waits for the sub-feed.  In the
\* first request (line 295): request_url turns it into exit_out(), whose
\* SystemExit the bare except of line 296 takes for a failed request, and the
\* mirror is requested.  In the request of the mirror (line 298): the
\* SystemExit reaches the handlers of lines 360, 390 and 735, the run exits.
InterruptFetch ==
    /\ pc = "build"
    /\ todo # <<>>
    /\ faults > 0
    /\ LET loop_year == todo[1][1]
           plist == todo[1][2]
           plist_url == build_url(loop_year, plist)
           alt_plist_url == alt_loop_feed_base_url \o loop_year \o <<"/">> \o plist
       IN  \E at \in {"primary", "mirror"}, mirror \in BOOLEAN :
             IF at = "primary"
             THEN IF mirror
                  THEN /\ faults' = faults - 1
                       /\ log' = log \o << Event("feed", plist_url, <<>>, 0),
                                           Interrupted(<<>>),
                                           Event("mirror", alt_plist_url, <<>>, 0) >>
                       /\ pc' = "plist"
                       /\ cur' = [loop_year |-> loop_year, plist |-> plist,
                                  source |-> "mirror", pkgs |-> Mirror(plist)]
                  ELSE /\ faults > 1
                       /\ faults' = faults - 2
                       /\ log' = log \o << Event("feed", plist_url, <<>>, 0),
                                           Interrupted(<<>>),
                                           Event("mirror", alt_plist_url, <<>>, 0),
                                           Event("raise URLError", <<>>, <<>>, 0) >>
                       /\ pc' = "crashed"
                       /\ cur' = cur
             ELSE /\ mirror
                  /\ faults > 1
                  /\ faults' = faults - 2
                  /\ log' = log \o << Event("feed", plist_url, <<>>, 0),
                                      Event("request failed", plist_url, <<>>, 0),
                                      Event("mirror", alt_plist_url, <<>>, 0),
                                      Interrupted(<<>>) >>
                  /\ pc' = "exited"
                  /\ cur' = cur
    /\ UNCHANGED <<config, master_list, download_amount, todo, counter,
                   download_counter, xfer, fsvars, seen, files0, dirs0, call>>

\* the signal arrives while process_plist waits for the headers of a package
\* (line 334): the bare except of line 339 takes the SystemExit for a failed
\* request, the declared size is used and the entry is processed
InterruptProbe ==
    /\ pc = "plist"
    /\ cur.pkgs # <<>>
    /\ Resolve(cur.loop_year, Head(cur.pkgs)).years # <<>>
    /\ faults > 0
    /\ faults' = faults - 1
    /\ Entry(FALSE, << Event("probe", Resolve(cur.loop_year, Head(cur.pkgs)).url,
                             <<>>, 0),
                       Interrupted(<<>>) >>)
    /\ UNCHANGED <<config, download_amount, todo, counter, download_counter,
                   xfer, fsvars, files0, dirs0, call>>

\* the signal arrives in the while loop of download (lines 570-603): the
\* finally clause runs, then the handler of line 627 exits
InterruptXfer ==
    /\ pc = "xfer"
    /\ faults > 0
    /\ faults' = faults - 1
    /\ LET loop == master_list[counter]
       IN  /\ Finally(loop)
           /\ log' = log \o << Interrupted(xfer.path) >> \o finally_events(loop)
    /\ pc' = "exited"
    /\ UNCHANGED <<config, master_list, todo, cur, counter, download_counter,
                   fsvars, seen, files0, dirs0, call>>

\* the signal arrives between two requests, where only the handlers of
\* (KeyboardInterrupt, SystemExit) are around the run: it exits
Interrupt ==
    /\ pc \in {"start", "build", "plist", "loop"}
    /\ faults > 0
    /\ faults' = faults - 1
    /\ log' = Append(log, Interrupted(<<>>))
    /\ pc' = "exited"
    /\ UNCHANGED <<config, master_list, download_amount, todo, cur, counter,
                   download_counter, xfer, fsvars, seen, files0, dirs0, call>>

\* the run stopped while a package body was being read
CutInTransfer ==
    /\ pc \in {"crashed", "exited"}
    /\ \E n \in 1..Len(log) :
          /\ log[n].e \in {"raise IOError", "interrupt"}
          /\ log[n].path # <<>>

\* the program is started again, with the same arguments, on the tree the
\* run that was cut left behind
Rerun ==
    /\ CutInTransfer
    /\ \A n \in 1..Len(log) : log[n].e # "run"
    /\ master_list' = <<>>
    /\ download_amount' = <<>>
    /\ pc' = "start"
    /\ todo' = <<>>
    /\ cur' = [loop_year |-> <<>>, plist |-> <<>>, source |-> "", pkgs |-> <<>>]
    /\ counter' = 0
    /\ download_counter' = 0
    /\ xfer' = NoXfer
    /\ log' = Append(log, Event("run", <<>>, <<>>, 0))
    /\ seen' = <<>>
    /\ files0' = files
    /\ dirs0' = dirs
    /\ UNCHANGED <<config, env, call>>

NextInterrupt ==
    \/ Next
    \/ InterruptFetch
    \/ InterruptProbe
    \/ InterruptXfer
    \/ Interrupt
    \/ Rerun

\* non-dry and dry runs of garageband and logicpro content of 2016
InitInterrupt ==
    /\ Init
    /\ jss_mode = FALSE
    /\ package_set = <<"garageband", "logicpro">>

SpecInterrupt == InitInterrupt /\ [][NextInterrupt]_vars

\* main_processor is run a second time, once, after a run that reached its
\* end, over the manifest of that run and the tree it left: the loop of
\* lines 703-716 starts again with a new ledger
RunAgain ==
    /\ pc = "done"
    /\ \A n \in 1..Len(log) : log[n].e # "run"
    /\ pc' = "loop"
    /\ counter' = 1
    /\ download_counter' = 0
    /\ download_amount' = <<>>
    /\ log' = Append(log, Event("run", <<>>, <<>>, 0))
    /\ files0' = files
    /\ dirs0' = dirs
    /\ UNCHANGED <<config, master_list, todo, cur, xfer, env, seen, call>>

NextRerun == Next \/ RunAgain

\* non-dry runs that build no disk image
InitRerun ==
    /\ Init
    /\ dry_run = FALSE
    /\ dmg_path = <<>>

SpecRerun == InitRerun /\ [][NextRerun]_vars

----------------------------------------------------------------------------
(* The command line: main(), from the construction of the parser to the    *)
(* call of main_processor.                                                 *)

\* the URL of the catalog feed, requested by every AppleLoops.__init__
feeds_url ==
    <<"h","t","t","p","s",":","/","/","r","a","w",".","g","i","t","h","u","b","u",
      "s","e","r","c","o","n","t","e","n","t",".","c","o","m","/","c","a","r","l",
      "a","s","h","l","e","y","/","a","p","p","l","e","L","o","o","p","s","/","m",
      "a","s","t","e","r","/","c","o","m",".","g","i","t","h","u","b",".","c","a",
      "r","l","a","s","h","l","e","y",".","a","p","p","l","e","L","o","o","p","s",
      ".","f","e","e","d","s",".","p","l","i","s","t">>

\* values of --build-dmg
TXT == <<"/","t","m","p","/","x",".","t","x","t">>
DMG_BAK == <<"x",".","d","m","g",".","b","a","k">>
DmgArgs == { None, DMG, TXT, DMG_BAK }

\* __main__, lines 958-962: the status the process ends with when main()
\* raises SystemExit(code): the handler calls sys.exit() without the code
exit_status(code) == 0

\* AppleLoops.__init__, lines 164-180: the catalog feed is requested and
\* read; a failure of the request leaves main() with a traceback
Catalog(then) ==
    \E ok \in BOOLEAN :
       IF ok
       THEN /\ log' = Append(log, Event("catalog", feeds_url, <<>>, 0))
            /\ pc' = then
            /\ UNCHANGED faults
       ELSE /\ faults > 0
            /\ faults' = faults - 1
            /\ log' = log \o << Event("catalog", feeds_url, <<>>, 0),
                                Event("raise URLError", feeds_url, <<>>, 0) >>
            /\ pc' = "crashed"

\* main, line 826: choices=(AppleLoops().file_choices)
FileChoices ==
    /\ pc = "main"
    /\ Catalog("years")
    /\ UNCHANGED <<config, master_list, download_amount, todo, cur, counter,
                   download_counter, xfer, fsvars, seen, files0, dirs0, call>>

\* main, line 886: choices=AppleLoops().loop_years
YearChoices ==
    /\ pc = "years"
    /\ Catalog("parse")
    /\ UNCHANGED <<config, master_list, download_amount, todo, cur, counter,
                   download_counter, xfer, fsvars, seen, files0, dirs0, call>>

\* main, lines 891-942: parse_args and the test of --build-dmg
ParseArgs ==
    /\ pc = "parse"
    /\ IF arg.build_dmg # None /\ ~EndsWith(arg.build_dmg, <<".","d","m","g">>)
       THEN /\ log' = Append(log, Event("exit", arg.build_dmg, <<>>, exit_status(1)))
            /\ pc' = "exited"
       ELSE /\ log' = log
            /\ pc' = "construct"
    /\ UNCHANGED <<config, master_list, download_amount, todo, cur, counter,
                   download_counter, xfer, env, seen, files0, dirs0, call>>

\* main, lines 945-954: loops = AppleLoops(...), with the defaults main()
\* gives to the options that are absent
Construct ==
    /\ pc = "construct"
    /\ Catalog("start")
    /\ dry_run' = arg.dry_run
    /\ dmg_path' = arg.build_dmg
    /\ package_set' = <<"garageband">>
    /\ package_year' = <<Y2016>>
    /\ UNCHANGED <<mandatory_pkg, optional_pkg, caching_server, files_process,
                   jss_mode, master_list, download_amount, todo, cur, counter,
                   download_counter, xfer, fsvars, seen, files0, dirs0, call>>

NextMain == FileChoices \/ YearChoices \/ ParseArgs \/ Construct \/ Next

\* the process starts: no instance yet (the fields hold the defaults of
\* __init__), the arguments are those of the command line
InitMain ==
    /\ dry_run = TRUE
    /\ mandatory_pkg = FALSE
    /\ optional_pkg = FALSE
    /\ caching_server = None
    /\ files_process = <<>>
    /\ jss_mode = FALSE
    /\ dmg_path = <<>>
    /\ package_set = <<>>
    /\ package_year = <<>>
    /\ \E t \in Trees : dirs = t.dirs /\ files = t.files
    /\ block_size = 4096
    /\ faults = MaxFaults
    /\ dirs0 = dirs
    /\ files0 = files
    /\ master_list = <<>>
    /\ download_amount = <<>>
    /\ pc = "main"
    /\ todo = <<>>
    /\ cur = [loop_year |-> <<>>, plist |-> <<>>, source |-> "", pkgs |-> <<>>]
    /\ counter = 0
    /\ download_counter = 0
    /\ xfer = NoXfer
    /\ log = <<>>
    /\ seen = <<>>
    /\ ret = <<>>
    /\ \E d \in DmgArgs, dry \in BOOLEAN :
          arg = [fn |-> "main", build_dmg |-> d, dry_run |-> dry]

SpecMain == InitMain /\ [][NextMain]_vars

----------------------------------------------------------------------------
(* Single calls of build_url and of file_exists, on inputs drawn from sets. *)

MaxChecks == 2  \* calls of file_exists on one file

\* str(n) for n >= 0: the text of a size
RECURSIVE ToDigits(_)
ToDigits(n) ==
    IF n < 10 THEN <<Digits[n + 1]>>
    ELSE ToDigits(n \div 10) \o <<Digits[(n % 10) + 1]>>

\* no run is in progress: the instance as constructed, an empty tree
InitNoRun ==
    /\ dry_run = TRUE
    /\ mandatory_pkg = FALSE
    /\ optional_pkg = FALSE
    /\ files_process = <<>>
    /\ jss_mode = FALSE
    /\ dmg_path = <<>>
    /\ package_set = <<>>
    /\ package_year = <<>>
    /\ dirs = {}
    /\ dirs0 = {}
    /\ files0 = <<>>
    /\ faults = 0
    /\ master_list = <<>>
    /\ download_amount = <<>>
    /\ pc = "call"
    /\ todo = <<>>
    /\ cur = [loop_year |-> <<>>, plist |-> <<>>, source |-> "", pkgs |-> <<>>]
    /\ counter = 0
    /\ download_counter = 0
    /\ xfer = NoXfer
    /\ log = <<>>
    /\ seen = <<>>
    /\ ret = <<>>

UrlYears == { Y2016, Y2017, <<"2","0","1","3">> }
FOO_PKG == <<"f","o","o",".","p","k","g">>
UrlFilenames ==
    { FOO_PKG, A_PKG, GB1, LP1, PkgExt, <<"p","k","g">>, <<"A",".","P","K","G">>,
      <<"a",".","p","k","g",".","p","l","i","s","t">>, LEGACY_C }
UrlCacheArgs ==
    { None,
      <<"h","t","t","p",":","/","/","c",":","8">>,
      <<"h","t","t","p",":","/","/","c",":","8","/">>,
      <<"h","t","t","p",":","/","/","c",":","8","/","/">> }

InitUrl ==
    /\ InitNoRun
    /\ files = <<>>
    /\ block_size = 4096
    /\ \E a \in UrlCacheArgs, y \in UrlYears, f \in UrlFilenames :
          /\ caching_server = InitCachingServer(a)
          /\ arg = [fn |-> "build_url", caching_server |-> a, loop_year |-> y,
                    filename |-> f]

\* one call of build_url
CallBuildUrl ==
    /\ pc = "call"
    /\ arg.fn = "build_url"
    /\ ret = <<>>
    /\ ret' = << build_url(arg.loop_year, arg.filename) >>
    /\ UNCHANGED <<config, master_list, download_amount, control, env, ghost, arg>>

SpecUrl == InitUrl /\ [][CallBuildUrl]_vars

OracleSizes == { 0, 1, 511, 512, 4095, 4096, 4097, 8191, 8192, 8292, 8300 }
BlockSizes == { 512, 4096 }

InitOracle ==
    /\ InitNoRun
    /\ caching_server = None
    /\ block_size \in BlockSizes
    /\ \E declared \in OracleSizes, t \in {"int", "str"} :
          arg = [fn |-> "file_exists",
                 loop |-> Loop(A_PKG, base_url \o Y2016 \o <<"/">> \o A_PKG, TRUE,
                               [t |-> t, v |-> ToDigits(declared)], Y2016,
                               <<"g","b">>, GB1_DIR),
                 local_file |-> <<GB1_DIR, MANDATORY, A_PKG>>,
                 declared |-> declared]
    /\ \/ files = <<>>
       \/ \E getsize \in OracleSizes :
             files = (<<GB1_DIR, MANDATORY, A_PKG>> :> getsize)

\* one call of file_exists
CallFileExists ==
    /\ pc = "call"
    /\ arg.fn = "file_exists"
    /\ Len(ret) < MaxChecks
    /\ ret' = Append(ret, file_exists(arg.loop, arg.local_file))
    /\ UNCHANGED <<config, master_list, download_amount, control, env, ghost, arg>>

SpecOracle == InitOracle /\ [][CallFileExists]_vars

\* the trees duplicate_file is called on: those a run may find, and one with
\* three directories three levels down
DuplicateTrees ==
    Trees \cup
    { [dirs |-> Dir(OLD, CACHE) \cup Dir(OLD, TMP)
                \cup { <<OLD, CACHE, SUB>>, <<OLD, CACHE, TMP>>, <<OLD, TMP, SUB>> },
       files |-> (<<OLD, CACHE, SUB, A_PKG>> :> 8300)
                 @@ (<<OLD, CACHE, TMP, A_PKG>> :> 4096)
                 @@ (<<OLD, TMP, SUB, B_PKG>> :> 4000)] }

\* the records duplicate_file is called for
DuplicateLoops ==
    { Loop(name, base_url \o Y2016 \o <<"/">> \o name, TRUE,
           StrSize(ToDigits(declared)), Y2016, <<"g","b">>, GB1_DIR) :
        name \in {A_PKG, B_PKG}, declared \in {100, 4000, 8300, 12288} }

InitDuplicate ==
    /\ dry_run = TRUE
    /\ mandatory_pkg = FALSE
    /\ optional_pkg = FALSE
    /\ caching_server = None
    /\ files_process = <<>>
    /\ jss_mode = FALSE
    /\ dmg_path = <<>>
    /\ package_set = <<>>
    /\ package_year = <<>>
    /\ \E t \in DuplicateTrees : dirs = t.dirs /\ files = t.files
    /\ block_size = 4096
    /\ dirs0 = dirs
    /\ files0 = files
    /\ faults = 0
    /\ master_list = <<>>
    /\ download_amount = <<>>
    /\ pc = "call"
    /\ todo = <<>>
    /\ cur = [loop_year |-> <<>>, plist |-> <<>>, source |-> "", pkgs |-> <<>>]
    /\ counter = 0
    /\ download_counter = 0
    /\ xfer = NoXfer
    /\ log = <<>>
    /\ seen = <<>>
    /\ ret = <<>>
    /\ \E loop \in DuplicateLoops, glob_path \in GlobPaths :
          arg = [fn |-> "duplicate_file", loop |-> loop, glob_path |-> glob_path]

\* one call of duplicate_file
CallDuplicateFile ==
    /\ pc = "call"
    /\ arg.fn = "duplicate_file"
    /\ ret = <<>>
    /\ ret' = << duplicate_file(arg.loop, arg.glob_path) >>
    /\ UNCHANGED <<config, master_list, download_amount, control, env, ghost, arg>>

SpecDuplicate == InitDuplicate /\ [][CallDuplicateFile]_vars

\* transfers of one package, for the sizes a record may carry (the text of a
\* Content-Length header or of a DownloadSize, zero included) against the
\* bytes the origin delivers
ProgressSizes == { 0, 1, 4000, 8192, 8300, 20000 }
ProgressNames == { A_PKG, B_PKG, E_PKG }

\* the manifest is built and holds one record; the loop is about to start
InitProgress ==
    /\ dry_run = FALSE
    /\ mandatory_pkg = FALSE
    /\ optional_pkg = FALSE
    /\ caching_server = None
    /\ files_process = <<>>
    /\ jss_mode \in BOOLEAN
    /\ dmg_path = <<>>
    /\ package_set = <<"garageband">>
    /\ package_year = <<Y2016>>
    /\ dirs = {}
    /\ files = <<>>
    /\ block_size = 4096
    /\ dirs0 = dirs
    /\ files0 = files
    /\ faults = MaxFaults
    /\ \E name \in ProgressNames, declared \in ProgressSizes :
          master_list = << Loop(name, base_url \o Y2016 \o <<"/">> \o name, TRUE,
                                StrSize(ToDigits(declared)), Y2016, <<"g","b">>,
                                GB1_DIR) >>
    /\ download_amount = <<>>
    /\ pc = "loop"
    /\ todo = <<>>
    /\ cur = [loop_year |-> <<>>, plist |-> <<>>, source |-> "", pkgs |-> <<>>]
    /\ counter = 1
    /\ download_counter = 0
    /\ xfer = NoXfer
    /\ log = <<>>
    /\ seen = <<>>
    /\ arg = NoCall
    /\ ret = <<>>

NextProgress == Download \/ ReadChunk \/ Report

SpecProgress == InitProgress /\ [][NextProgress]_vars

----------------------------------------------------------------------------
(* Properties of manifest resolution (under SpecBuild).                    *)

Range(s) == { s[i] : i \in 1..Len(s) }
Unfiltered == ~mandatory_pkg /\ ~optional_pkg
MandatoryOnly == mandatory_pkg /\ ~optional_pkg
OptionalOnly == optional_pkg /\ ~mandatory_pkg

\* C1 (manifest uniqueness): at every point of every manifest build, no two
\* positions of master_list hold records equal in all seven fields, and in
\* an unfiltered build every record resolved so far is in the manifest, so
\* that records sharing a file name but differing in a field are both kept.
C1_ManifestUnique ==
    /\ \A i, j \in 1..Len(master_list) :
          i # j => master_list[i] # master_list[j]
    /\ Unfiltered => \A k \in 1..Len(seen) : InSeq(seen[k].loop, master_list)

\* C1 happens: a sub-feed was processed a second time and an entry resolved to
\* a record the manifest already held, while two records of the manifest
\* share their file name and differ in another field.
C1_Witness ==
    /\ Unfiltered
    /\ \E i, j \in 1..Len(seen) : i < j /\ seen[i].loop = seen[j].loop
    /\ \E i, j \in 1..Len(master_list) :
          /\ i # j
          /\ master_list[i].pkg_name = master_list[j].pkg_name
          /\ master_list[i].pkg_plist = master_list[j].pkg_plist
          /\ master_list[i].pkg_size # master_list[j].pkg_size

\* C2 (filter correctness): the manifest holds exactly the resolved records
\* that are mandatory in a mandatory-only run, exactly those that are not
\* mandatory in an optional-only run, and exactly all of them with neither
\* flag (which is the union of the two).
C2_FilterCorrect ==
    LET all == { seen[k].loop : k \in 1..Len(seen) }
        mand == { l \in all : l.pkg_mandatory }
        opt == { l \in all : ~l.pkg_mandatory }
    IN  /\ MandatoryOnly => Range(master_list) = mand
        /\ OptionalOnly => Range(master_list) = opt
        /\ Unfiltered => Range(master_list) = mand \cup opt

\* C2 happens: a mandatory-only build is complete, it met mandatory and
\* optional entries, and its manifest is not empty.
C2_Witness ==
    /\ pc = "loop"
    /\ MandatoryOnly
    /\ master_list # <<>>
    /\ \E k \in 1..Len(seen) : ~seen[k].loop.pkg_mandatory
    /\ \E k \in 1..Len(seen) : seen[k].loop.pkg_mandatory

\* the entry process_plist is working on when the run stops inside it
Stopped == pc = "crashed" /\ cur.pkgs # <<>>

\* C9 (legacy-path rewrite), as claimed: every entry whose declared name
\* begins with '../' yields a record with the base file name, the legacy
\* origin followed by the rest of the declared name as URL, and the last 4
\* characters of the URL segment holding the catalog marker as year; every
\* other entry yields a record with the year of the sub-feed.
C9_LegacyRewrite ==
    /\ \A k \in 1..Len(seen) :
          LET declared == seen[k].declared
              l == seen[k].loop
              segs == Split(l.pkg_url, "/")
          IN  IF SubSeq(declared, 1, 3) = <<".", ".", "/">>
              THEN /\ l.pkg_name = Basename(declared)
                   /\ l.pkg_url = LegacyOrigin \o SubSeq(declared, 4, Len(declared))
                   /\ \E n \in 1..Len(segs) :
                         /\ Contains(segs[n], CatalogMarker)
                         /\ l.pkg_year = SubSeq(segs[n], Len(segs[n]) - 3, Len(segs[n]))
              ELSE l.pkg_year = seen[k].loop_year
    /\ ~(Stopped /\ SubSeq(Head(cur.pkgs).DownloadName, 1, 3) = <<".", ".", "/">>)

----------------------------------------------------------------------------
(* Properties of the loop over the manifest (under Spec).                  *)

\* the events of a kind logged for the k-th manifest entry
Did(kind, k) == \E n \in 1..Len(log) : log[n].e = kind /\ log[n].n = k
Happened(kind) == \E n \in 1..Len(log) : log[n].e = kind

RECURSIVE SumSizes(_)
SumSizes(loops) ==
    IF loops = <<>> THEN 0
    ELSE ParseInt(Head(loops).pkg_size.v) + SumSizes(Tail(loops))

\* the entry's local path held a complete file when the run started
CompleteAtStart(loop) ==
    LET path == <<loop.pkg_plist,
                  IF loop.pkg_mandatory THEN MANDATORY ELSE OPTIONAL,
                  loop.pkg_name>>
    IN  /\ path \in DOMAIN files0
        /\ files0[path] \div block_size >= ParseInt(loop.pkg_size.v) \div block_size

\* C3 (duplicate reuse), as claimed: in a non-dry run, when two manifest
\* entries have the same file name and size and local paths in different
\* sub-feed directories, and the first was downloaded, then no request is
\* issued for the second, which is copied (its path not having been there
\* when the run started).
C3_DuplicateReuse ==
    ~dry_run =>
      \A i, j \in 1..Len(master_list) :
         ( /\ i < j
           /\ master_list[i].pkg_name = master_list[j].pkg_name
           /\ master_list[i].pkg_size = master_list[j].pkg_size
           /\ master_list[i].pkg_plist # master_list[j].pkg_plist
           /\ Did("body", i)
           /\ counter > i
           /\ LocalFile(master_list[j]) \notin DOMAIN files0 )
         => /\ ~Did("body", j)
            /\ counter > j => Did("copy", j)

\* C4 (dry-run purity): in a dry run the tree stays as it was when the run
\* started, no package body is requested or read, nothing is copied and the
\* archive utility is not invoked.
C4_DryRunPure ==
    dry_run =>
      /\ dirs = dirs0
      /\ files = files0
      /\ ~Happened("body")
      /\ ~Happened("chunk")
      /\ ~Happened("copy")
      /\ ~Happened("hdiutil")

\* C4 happens: a dry run has ended after reporting a skip, a copy, a download
\* and the archive it would build.
C4_Witness ==
    /\ dry_run
    /\ pc = "done"
    /\ Happened("skip")
    /\ Happened("would copy")
    /\ Happened("would download")
    /\ Happened("would build")

\* the byte total of the end-of-run report
ReportedTotal == (CHOOSE n \in 1..Len(log) : log[n].e = "report")

\* C5 (dry-run total), as claimed: the total a dry run reports is the sum of
\* the declared sizes of the manifest entries whose local path is not
\* complete in the tree the run found.
C5_DryRunTotalAsClaimed ==
    dry_run /\ pc = "done" =>
      log[ReportedTotal].n =
         SumSizes(SelectSeq(master_list, LAMBDA l : ~CompleteAtStart(l)))

\* C5 (dry-run total), amended: the total a dry run reports is the sum of
\* the declared sizes of the manifest entries whose local path is not
\* complete in the tree the run found and which the run did not report as
\* a copy of a duplicate.
C5_DryRunTotal ==
    dry_run /\ pc = "done" =>
      LET counted == { k \in 1..Len(master_list) :
                          /\ ~CompleteAtStart(master_list[k])
                          /\ ~Did("would copy", k) }
          sizes == [k \in 1..Len(master_list) |->
                       IF k \in counted THEN ParseInt(master_list[k].pkg_size.v)
                       ELSE 0]
      IN  log[ReportedTotal].n = Sum(sizes)

\* C5 happens: a dry run over a tree that holds a complete file and a
\* duplicate has ended, with entries skipped, reported as copy and counted.
C5_Witness ==
    /\ dry_run
    /\ pc = "done"
    /\ \E k \in 1..Len(master_list) : CompleteAtStart(master_list[k])
    /\ Happened("would copy")
    /\ Happened("would download")
    /\ log[ReportedTotal].n > 0

\* a transfer of a package body failed
TransferFailed ==
    \E n \in 1..Len(log) :
       /\ log[n].e \in { "raise URLError", "raise IOError" }
       /\ log[n].path # <<>>

\* C10 (a transfer failure does not abort the run), as claimed: after the
\* transfer of an entry has failed the run is still in its loop over the
\* manifest or at its end-of-run report.
C10_TransferFailureContinues ==
    ~dry_run /\ TransferFailed => pc \in { "loop", "xfer", "done" }

----------------------------------------------------------------------------
(* Properties of single calls (under SpecUrl and SpecOracle).              *)

OriginHost ==
    <<"a","u","d","i","o","c","o","n","t","e","n","t","d","o","w","n","l","o","a",
      "d",".","a","p","p","l","e",".","c","o","m">>

\* C8 (URL construction): build_url returns <cacheBase><year>/<filename>
\* ?source=<originHost> when a caching proxy is configured and the filename
\* ends in .pkg, and <originBase><year>/<filename> otherwise; cacheBase is
\* the proxy URL without trailing slashes followed by /lp10_ms3_content_.
C8_UrlConstruction ==
    ret # <<>> =>
      LET f == arg.filename
          y == arg.loop_year
          isPkg == Len(f) >= 4 /\ SubSeq(f, Len(f) - 3, Len(f)) = <<".","p","k","g">>
          cacheBase == <<"h","t","t","p",":","/","/","c",":","8">>
                       \o <<"/","l","p","1","0","_","m","s","3","_","c","o","n","t",
                            "e","n","t","_">>
          originBase == <<"h","t","t","p",":","/","/">> \o OriginHost
                        \o <<"/","l","p","1","0","_","m","s","3","_","c","o","n","t",
                             "e","n","t","_">>
      IN  ret[1] = IF arg.caching_server # <<>> /\ isPkg
                   THEN cacheBase \o y \o <<"/">> \o f
                        \o <<"?","s","o","u","r","c","e","=">> \o OriginHost
                   ELSE originBase \o y \o <<"/">> \o f

\* C8 happens: build_url was called for year 2016 and foo.pkg with a proxy
\* configured (given with a trailing slash).
C8_Witness ==
    /\ ret # <<>>
    /\ arg.fn = "build_url"
    /\ arg.loop_year = Y2016
    /\ arg.filename = FOO_PKG
    /\ arg.caching_server = <<"h","t","t","p",":","/","/","c",":","8","/">>

\* C6 (completeness policy): file_exists reports complete exactly when a
\* file is at the path and floor(local size / block size) >=
\* floor(declared size / block size).
C6_OraclePolicy ==
    \A k \in 1..Len(ret) :
       Truthy(ret[k]) <=>
          /\ arg.local_file \in DOMAIN files
          /\ files[arg.local_file] \div block_size >= arg.declared \div block_size

\* C6 happens: a file shorter than the declared size, with the same block
\* count, was checked and reported complete.
C6_Witness ==
    /\ arg.fn = "file_exists"
    /\ ret # <<>>
    /\ arg.local_file \in DOMAIN files
    /\ files[arg.local_file] < arg.declared
    /\ arg.declared >= block_size
    /\ ret[1] = "True"

\* C7 (completeness idempotence): for a file whose size equals the declared
\* size every check answers complete, however many checks are made, and a
\* check changes neither the tree, nor the record, nor the ledger.
C7_OracleIdempotent ==
    /\ [](arg.fn = "file_exists" /\ arg.local_file \in DOMAIN files
          /\ files[arg.local_file] = arg.declared
          => \A k \in 1..Len(ret) : ret[k] = "True")
    /\ [][ret' # ret => /\ files' = files
                        /\ dirs' = dirs
                        /\ arg' = arg
                        /\ master_list' = master_list
                        /\ download_amount' = download_amount]_vars

\* C7 happens: a file of exactly the declared size was checked twice.
C7_Witness ==
    /\ arg.fn = "file_exists"
    /\ arg.local_file \in DOMAIN files
    /\ files[arg.local_file] = arg.declared
    /\ arg.declared > 0
    /\ Len(ret) >= 2

----------------------------------------------------------------------------
(* Properties of the requests of manifest resolution (under SpecBuild).    *)

\* the entry of the sub-feed document a resolved entry came from
DeclaredEntry(s) ==
    LET doc == Document(s.loop.pkg_plist \o <<".","p","l","i","s","t">>)
    IN  doc[CHOOSE n \in 1..Len(doc) : doc[n].DownloadName = s.declared]

\* C11 (size-probe fallback): the size of every resolved record is the value
\* of the Content-Length header when the request for the package URL gave
\* one, and the size the sub-feed declares (a string without its separator
\* dots) when it did not; the step that makes the request goes on with the
\* sub-feed whatever the request did, and the record is in the manifest
\* when the filter lets it through.
C11_SizeProbeFallback ==
    /\ [](\A k \in 1..Len(seen) :
            LET s == seen[k]
                declared == DeclaredEntry(s).DownloadSize
            IN  /\ s.header =>
                      s.loop.pkg_size =
                         [t |-> "str",
                          v |-> Without(Origin(s.loop.pkg_name).header, <<" ">>)]
                /\ ~s.header =>
                      s.loop.pkg_size =
                         [t |-> declared.t, v |-> Without(declared.v, <<".">>)]
                /\ ( \/ MandatoryOnly /\ s.loop.pkg_mandatory
                     \/ OptionalOnly /\ ~s.loop.pkg_mandatory
                     \/ Unfiltered ) => InSeq(s.loop, master_list))
    /\ [][(Len(log') > Len(log) /\ log'[Len(log')].e = "probe")
            => /\ pc' = "plist"
               /\ Len(seen') = Len(seen) + 1
               /\ Len(cur'.pkgs) = Len(cur.pkgs) - 1]_vars

\* C11 happens: manifest resolution has ended; one request for a package URL
\* failed and its record, with the declared size, is in the manifest; another
\* gave a header that differs from the declared size.
C11_Witness ==
    /\ pc = "loop"
    /\ \E k \in 1..Len(seen) :
          /\ ~seen[k].header
          /\ InSeq(seen[k].loop, master_list)
          /\ seen[k].loop.pkg_size.v # Without(Origin(seen[k].loop.pkg_name).header, <<" ">>)
    /\ \E k \in 1..Len(seen) :
          /\ seen[k].header
          /\ seen[k].loop.pkg_size.v # Without(DeclaredEntry(seen[k]).DownloadSize.v, <<".">>)

----------------------------------------------------------------------------
(* Properties of interrupted runs (under SpecInterrupt).                   *)

\* the position in the log where the run in progress begins
RunStart ==
    IF \E n \in 1..Len(log) : log[n].e = "run"
    THEN CHOOSE n \in 1..Len(log) : log[n].e = "run"
    ELSE 0

\* the k-th entry of the run in progress has an event of the kind
DidNow(kind, k) ==
    \E n \in (RunStart + 1)..Len(log) : log[n].e = kind /\ log[n].n = k

\* C12 (interrupt always wins), as claimed: once an interrupt has occurred in
\* a run, that run requests no sub-feed (from the origin or the mirror), no
\* package headers and no package body, reads no chunk, copies nothing and
\* adds no record to the manifest.
C12_InterruptWins ==
    \A i \in 1..Len(log) :
       log[i].e = "interrupt" =>
          /\ \A j \in (i + 1)..Len(log) :
                (\A m \in i..j : log[m].e # "run") =>
                   log[j].e \notin { "feed", "mirror", "probe", "body", "chunk",
                                     "copy", "would copy", "would download" }
          /\ (\A m \in i..Len(log) : log[m].e # "run") =>
                Len(master_list) = log[i].n

\* C13 (interrupted transfers are detected), as claimed: when the run that
\* follows a run cut in a transfer finds, at the local path of an entry, a
\* file of a whole number of 8192-byte chunks that is shorter than the size
\* of the entry, it does not skip the entry: it requests the body again (or
\* copies a duplicate over the file).
C13_PartialDetected ==
    (RunStart > 0 /\ ~dry_run) =>
       \A k \in 1..Len(master_list) :
          LET loop == master_list[k]
              path == <<loop.pkg_plist,
                        IF loop.pkg_mandatory THEN MANDATORY ELSE OPTIONAL,
                        loop.pkg_name>>
          IN  ( /\ k < counter
                /\ path \in DOMAIN files0
                /\ files0[path] % 8192 = 0
                /\ files0[path] < ParseInt(loop.pkg_size.v) )
              => /\ ~DidNow("skip", k)
                 /\ DidNow("body", k) \/ DidNow("copy", k)

----------------------------------------------------------------------------
(* Properties of the command line (under SpecMain).                        *)

\* C14 (archive-path validation precedes all work), as claimed: when the
\* value of --build-dmg does not end in .dmg the process exits with status 1,
\* and no request (catalog feed, sub-feed, package headers, package body) was
\* issued before.
C14_ValidationFirst ==
    \A i \in 1..Len(log) :
       log[i].e = "exit" =>
          /\ log[i].n = 1
          /\ \A j \in 1..(i - 1) :
                log[j].e \notin { "catalog", "feed", "mirror", "probe", "body" }

----------------------------------------------------------------------------
(* Properties of the sub-feed requests (under SpecBuild).                  *)

\* C15 (mirror fallback): the mirror is requested exactly when the request
\* of the sub-feed at the origin failed, right after that request and for the
\* same sub-feed; and the entries of a sub-feed read from the mirror are
\* taken in the order of the document and resolved to the records the same
\* entries give when the document comes from the origin.
C15_MirrorFallback ==
    /\ \A i \in 1..Len(log) :
          /\ log[i].e = "mirror" =>
                /\ i >= 3
                /\ log[i-1].e = "request failed"
                /\ log[i-2].e = "feed"
                /\ log[i-2].url = log[i-1].url
                /\ Basename(log[i-2].url) = Basename(log[i].url)
          /\ log[i].e = "request failed" =>
                /\ i < Len(log)
                /\ log[i+1].e = "mirror"
          /\ log[i].e = "feed" /\ i < Len(log) /\ log[i+1].e # "request failed"
                => log[i+1].e # "mirror"
    /\ \A j, k \in 1..Len(seen) :
          ( /\ seen[j].declared = seen[k].declared
            /\ seen[j].loop_year = seen[k].loop_year
            /\ seen[j].loop.pkg_plist = seen[k].loop.pkg_plist
            /\ seen[j].header = seen[k].header )
          => seen[j].loop = seen[k].loop
    /\ pc = "plist" =>
          LET doc == Document(cur.plist)
              done == Len(Packages(cur.plist)) - Len(cur.pkgs)
          IN  /\ done >= 0
              /\ done <= Len(seen)
              /\ \A n \in 1..done :
                    /\ seen[Len(seen) - done + n].declared = doc[n].DownloadName
                    /\ seen[Len(seen) - done + n].source = cur.source
              /\ \A n \in 1..Len(cur.pkgs) : cur.pkgs[n] = doc[done + n]

\* C15 happens: manifest resolution has ended; a sub-feed was read from the
\* origin and, after a failed request, from the mirror, and an entry was
\* resolved from both.
C15_Witness ==
    /\ pc = "loop"
    /\ \E i \in 1..Len(log) : log[i].e = "mirror"
    /\ \E j, k \in 1..Len(seen) :
          /\ seen[j].source = "primary"
          /\ seen[k].source = "mirror"
          /\ seen[j].declared = seen[k].declared
          /\ seen[j].loop = seen[k].loop
          /\ InSeq(seen[k].loop, master_list)

----------------------------------------------------------------------------
(* Properties of the handling of an entry (under Spec).                    *)

\* <sourceFeed>/<mandatory|optional>/<name> below the download root
PathOf(loop) ==
    <<loop.pkg_plist, IF loop.pkg_mandatory THEN MANDATORY ELSE OPTIONAL,
      loop.pkg_name>>

\* the events that report what was done with an entry
EntryEvents == { "skip", "copy", "would copy", "body", "would download" }

\* C16 (local path mapping): in dry and non-dry runs, the path an entry is
\* checked at, copied to or downloaded to is <sourceFeed>/mandatory/<name>
\* for a mandatory record and <sourceFeed>/optional/<name> otherwise; records
\* of the manifest that agree on sourceFeed, mandatory and name have the same
\* path whatever their other fields; and every file and directory the run
\* adds to the tree is (on the way to) such a path.
C16_LocalPath ==
    /\ \A n \in 1..Len(log) :
          log[n].e \in EntryEvents =>
             log[n].path = PathOf(master_list[log[n].n])
    /\ \A i, j \in 1..Len(master_list) :
          ( /\ master_list[i].pkg_plist = master_list[j].pkg_plist
            /\ master_list[i].pkg_mandatory = master_list[j].pkg_mandatory
            /\ master_list[i].pkg_name = master_list[j].pkg_name )
          => LocalFile(master_list[i]) = LocalFile(master_list[j])
    /\ xfer.active => xfer.path = PathOf(master_list[counter])
    /\ \A p \in DOMAIN files :
          p \notin DOMAIN files0 =>
             \E k \in 1..Len(master_list) : p = PathOf(master_list[k])
    /\ \A d \in dirs \ dirs0 :
          \E k \in 1..Len(master_list) :
             d = SubSeq(PathOf(master_list[k]), 1, Len(d)) /\ Len(d) <= 2

\* C16 happens: a non-dry run has ended in which two records with the same
\* sourceFeed, mandatory flag and name but different sizes were handled, the
\* first downloaded to the path and the second checked at it and skipped,
\* while another entry was copied.
C16_Witness ==
    /\ ~dry_run
    /\ pc = "done"
    /\ Happened("copy")
    /\ \E i, j \in 1..Len(master_list) :
          /\ i < j
          /\ PathOf(master_list[i]) = PathOf(master_list[j])
          /\ master_list[i].pkg_size # master_list[j].pkg_size
          /\ Did("body", i)
          /\ Did("skip", j)

\* the events of a kind set logged for the k-th manifest entry
EventsOf(kinds, k) == { n \in 1..Len(log) : log[n].e \in kinds /\ log[n].n = k }

CompleteNow(loop) ==
    /\ PathOf(loop) \in DOMAIN files
    /\ files[PathOf(loop)] \div block_size >= ParseInt(loop.pkg_size.v) \div block_size

\* a directory three levels down holds a file of the entry's name with at
\* least as many blocks as the size of the entry has
DuplicateNow(loop) ==
    \E d \in dirs :
       /\ Len(d) = 3
       /\ (d \o <<loop.pkg_name>>) \in DOMAIN files
       /\ files[d \o <<loop.pkg_name>>] \div block_size
             >= ParseInt(loop.pkg_size.v) \div block_size

\* C18 (a skip performs no I/O and takes precedence): whenever the loop is at
\* an entry whose local path is complete, with or without a duplicate
\* elsewhere in the tree, what it does with the entry is a skip: it is
\* reported as skipped, the tree (files and directories) and the ledger stay
\* as they are, nothing is requested or copied, and the loop moves on.
C18_SkipNoIO ==
    [][(pc = "loop" /\ counter <= Len(master_list) /\ CompleteNow(master_list[counter]))
         => ( /\ log' = Append(log, Event("skip", <<>>, PathOf(master_list[counter]),
                                          counter))
              /\ files' = files
              /\ dirs' = dirs
              /\ download_amount' = download_amount
              /\ xfer' = xfer
              /\ pc' = "loop"
              /\ counter' = counter + 1 )]_vars

\* C18 happens: in a non-dry run the first entry, whose local path is
\* complete while a complete duplicate lies three levels down, was skipped
\* and the tree is as the run found it.
C18_Witness ==
    /\ ~dry_run
    /\ pc = "loop"
    /\ counter = 2
    /\ Did("skip", 1)
    /\ CompleteNow(master_list[1])
    /\ DuplicateNow(master_list[1])
    /\ files = files0
    /\ dirs = dirs0

----------------------------------------------------------------------------
(* Properties of single calls of duplicate_file (under SpecDuplicate).     *)

\* C19 (duplicate locator result), as claimed: duplicate_file reports a
\* duplicate exactly when one of the directories it scans holds a file of the
\* record's name with at least as many blocks as the record's size has.
C19_DuplicateLocator ==
    (arg.fn = "duplicate_file" /\ ret # <<>>) =>
       ( ret[1] = "True" <=>
           \E n \in 1..Len(arg.glob_path) :
              LET path == arg.glob_path[n] \o <<arg.loop.pkg_name>>
              IN  /\ path \in DOMAIN files
                  /\ files[path] \div block_size
                        >= ParseInt(arg.loop.pkg_size.v) \div block_size )

----------------------------------------------------------------------------
(* Properties of the end-of-run report (under Spec).                       *)

\* C20 (downloaded count), as claimed: the count a non-dry run reports at
\* its end is the number of manifest entries whose body was requested and
\* read in that run; skipped and copied entries are not in it.
C20_DownloadedCount ==
    \A n \in 1..Len(log) :
       (~dry_run /\ log[n].e = "report count") =>
          log[n].n = Cardinality({ k \in 1..Len(master_list) : Did("body", k) })

\* the bytes the chunks of the run wrote
RECURSIVE Received(_)
Received(events) ==
    IF events = <<>> THEN 0
    ELSE (IF Head(events).e = "chunk" THEN Head(events).n ELSE 0)
         + Received(Tail(events))

\* C21 (ledger byte total), as claimed: in a non-dry run, whenever no
\* transfer is in progress, the sum of the ledger is the number of bytes the
\* run received and wrote: the whole body for a transfer that ended, the
\* bytes read so far for one that stopped early, nothing for a request that
\* could not be opened.
C21_LedgerBytes ==
    (~dry_run /\ pc \in {"loop", "done", "crashed"}) =>
       Sum(download_amount) = Received(log)

\* C22 (pacing order): in a non-dry run, the request of every transfer that
\* ended is closed right after its last chunk was written, then the ledger is
\* updated, then the run pauses; and between the end of a transfer and the
\* next request for a package body there is a pause.
C22_PacingOrder ==
    ~dry_run =>
       /\ \A i \in 1..Len(log) :
             log[i].e = "close" =>
                /\ i > 1
                /\ log[i-1].e \in {"chunk", "progress", "body"}
                /\ log[i-1].path = log[i].path
                /\ i + 2 <= Len(log)
                /\ log[i+1].e = "ledger"
                /\ log[i+1].path = log[i].path
                /\ log[i+2].e = "pause"
                /\ log[i+2].n = log[i].n
       /\ \A i, j \in 1..Len(log) :
             (i < j /\ log[i].e = "body" /\ log[j].e = "body")
                => \E m \in (i + 1)..(j - 1) : log[m].e = "pause"
       /\ \A k \in 1..Len(master_list) :
             (Did("body", k) /\ k < counter) => Did("close", k) /\ Did("pause", k)

\* C22 happens: a non-dry run has ended in which two package bodies were
\* transferred in several chunks, one after the other.
C22_Witness ==
    /\ ~dry_run
    /\ pc = "done"
    /\ \E i, j \in 1..Len(log) :
          /\ i + 1 < j
          /\ log[i].e = "chunk"
          /\ \E m \in (i + 1)..(j - 1) : log[m].e = "chunk" /\ log[m].path = log[i].path
          /\ \E m \in (i + 1)..(j - 1) : log[m].e = "close" /\ log[m].path = log[i].path
          /\ log[j].e = "body"
          /\ \E m \in (j + 1)..Len(log) : log[m].e = "pause"

----------------------------------------------------------------------------
(* Properties of the progress output (under SpecProgress).                 *)

\* the positions of the progress lines of a path, in order
ProgressOf(path) ==
    { n \in 1..Len(log) : log[n].e = "progress" /\ log[n].path = path }

\* C23 (progress bound), as claimed: after every chunk the percentage is
\* defined, whatever size the record carries; it lies between 0 and 100 and
\* does not decrease from one chunk to the next; a progress line follows
\* every chunk, except in quiet mode, where there is none.
C23_ProgressBound ==
    /\ ~Happened("raise ZeroDivisionError")
    /\ \A n \in 1..Len(log) :
          log[n].e = "progress" => log[n].n >= 0 /\ log[n].n <= 10000
    /\ \A m, n \in 1..Len(log) :
          ( /\ m < n
            /\ log[m].e = "progress"
            /\ log[n].e = "progress"
            /\ log[m].path = log[n].path )
          => log[m].n <= log[n].n
    /\ jss_mode => ~Happened("progress")
    /\ ~jss_mode =>
          \A n \in 1..Len(log) :
             log[n].e = "chunk" =>
                /\ n < Len(log)
                /\ log[n+1].e = "progress"
                /\ log[n+1].path = log[n].path

----------------------------------------------------------------------------
(* Properties of the traversal (under SpecSubset).                         *)

IsPrefix(s, t) == Len(s) <= Len(t) /\ SubSeq(t, 1, Len(s)) = s

\* the records of the entries met so far, in the order they were met
Met == [k \in 1..Len(seen) |-> seen[k].loop]

\* s without the elements that occur earlier in s
FirstOccurrences(s) ==
    LET First(k) == \A j \in 1..(k - 1) : s[j] # s[k]
        keep == { k \in 1..Len(s) : First(k) }
        RECURSIVE Pick(_)
        Pick(k) == IF k > Len(s) THEN <<>>
                   ELSE (IF k \in keep THEN << s[k] >> ELSE <<>>) \o Pick(k + 1)
    IN  Pick(1)

\* the sub-feeds taken for a selected product and year: those the catalog
\* lists, or with an explicit list those of the list the catalog lists there
SubFeeds(product, year) ==
    LET listed == loop_feed_locations(product, year)
        Listed(f) == InSeq(f, listed)
    IN  IF files_process = <<>> THEN listed ELSE SelectSeq(files_process, Listed)

\* the traversal the manifest is to follow: selected product order, then
\* selected year order, then sub-feed order, then the order of the entries
\* within the sub-feed
Traversal ==
    LET OfFeed(year, f) ==
            [k \in 1..Len(Packages(f)) |->
                [loop_year |-> year, plist |-> SplitExtRoot(f),
                 declared |-> Packages(f)[k].DownloadName]]
        OfYear(product, year) ==
            LET fs == SubFeeds(product, year)
            IN  Concat([k \in 1..Len(fs) |-> OfFeed(year, fs[k])])
        OfProduct(product) ==
            Concat([j \in 1..Len(package_year) |-> OfYear(product, package_year[j])])
    IN  Concat([i \in 1..Len(package_set) |-> OfProduct(package_set[i])])

MetAt ==
    [k \in 1..Len(seen) |->
        [loop_year |-> seen[k].loop_year, plist |-> seen[k].loop.pkg_plist,
         declared |-> seen[k].declared]]

Scoped ==
    { t \in (1..Len(package_set)) \X (1..Len(package_year)) \X (1..Len(files_process)) :
        InSeq(files_process[t[3]],
              loop_feed_locations(package_set[t[1]], package_year[t[2]])) }

FeedRequests == SelectSeq(log, LAMBDA ev : ev.e = "feed")

\* C25 (explicit subset scoped): with an explicit list of sub-feed files, a
\* sub-feed is requested for a year exactly when it is in the list and the
\* catalog lists it under a selected product and that selected year, once for
\* each such occurrence; every manifest entry comes from an explicit file; an
\* explicit file no selected product and year lists is never requested and
\* gives no entry.
C25_SubsetScoped ==
    files_process # <<>> =>
       /\ \A n \in 1..Len(FeedRequests) :
             \E t \in Scoped :
                FeedRequests[n].url = build_url(package_year[t[2]], files_process[t[3]])
       /\ Len(FeedRequests) <= Cardinality(Scoped)
       /\ pc = "loop" => Len(FeedRequests) = Cardinality(Scoped)
       /\ \A k \in 1..Len(master_list) :
             \E n \in 1..Len(files_process) :
                master_list[k].pkg_plist = SplitExtRoot(files_process[n])
       /\ \A n \in 1..Len(files_process) :
             (\A t \in Scoped : files_process[t[3]] # files_process[n]) =>
                /\ \A m \in 1..Len(log) :
                      log[m].e \in {"feed", "mirror"} =>
                         UrlFile(log[m].url) # files_process[n]
                /\ \A k \in 1..Len(seen) :
                      seen[k].loop.pkg_plist # SplitExtRoot(files_process[n])

\* resolution has ended with an explicit list of which one file was
\* processed and gave entries, and another is listed by no selected product
C25_Witness ==
    /\ pc = "loop"
    /\ files_process = <<MS2, LP1>>
    /\ Len(package_year) = 2
    /\ Len(FeedRequests) = 2
    /\ master_list # <<>>

----------------------------------------------------------------------------
(* Properties of a whole run and of the run after it.                      *)

\* the positions in the log where the transfer of a package body starts
Transfers == { n \in 1..Len(log) : log[n].e = "body" }

\* the transfer that starts at n has ended: the position of its close
Closes(n) == { m \in (n + 1)..Len(log) : log[m].e = "close" /\ log[m].n = log[n].n }
CloseOf(n) == CHOOSE m \in Closes(n) : \A x \in Closes(n) : m <= x

\* every transfer has ended and delivered as many bytes as the size of its
\* record says
DeliveredAsDeclared ==
    \A n \in Transfers :
       /\ Closes(n) # {}
       /\ Received(SubSeq(log, n, CloseOf(n))) = SizeOf(master_list[log[n].n])

\* C26 (run-level postcondition): when a non-dry run has reached its
\* end-of-run report, no transfer has failed and every transfer has delivered
\* exactly the size of its record, the local path of every manifest entry
\* holds a complete file, also when two records of different sizes have the
\* same local path.
C26_RunPostcondition ==
    (~dry_run /\ pc = "done" /\ ~TransferFailed /\ DeliveredAsDeclared) =>
       \A k \in 1..Len(master_list) : CompleteNow(master_list[k])

\* such a run has ended after transfers, with two records of different sizes
\* for one local path
C26_Witness ==
    /\ ~dry_run
    /\ pc = "done"
    /\ ~TransferFailed
    /\ DeliveredAsDeclared
    /\ Cardinality(Transfers) >= 2
    /\ \E i, j \in 1..Len(master_list) :
          /\ i < j
          /\ PathOf(master_list[i]) = PathOf(master_list[j])
          /\ SizeOf(master_list[i]) # SizeOf(master_list[j])
    /\ \A k \in 1..Len(master_list) : CompleteNow(master_list[k])

\* a transfer of the first run failed
FirstRunFailed ==
    \E n \in 1..RunStart :
       /\ log[n].e \in { "raise URLError", "raise IOError" }
       /\ log[n].path # <<>>

\* what the second run has done so far: events of its own, a changed tree,
\* bytes in its ledger
SecondRunActs ==
    \/ \E n \in (RunStart + 1)..Len(log) :
          log[n].e \in { "body", "chunk", "copy", "would copy", "would download" }
    \/ files # files0
    \/ dirs # dirs0
    \/ Sum(download_amount) # 0

\* C27 (re-run idempotence), as claimed: a second run over the same manifest
\* and the tree left by a non-dry run that reached its end without a failed
\* transfer requests no package body, copies and writes nothing, leaves the
\* tree as it found it and adds nothing to the byte total of the ledger.
C27_RerunIdempotent ==
    (RunStart > 0 /\ ~FirstRunFailed) => ~SecondRunActs

\* every transfer of the first run delivered as many bytes as the size of
\* its record says
FirstRunDelivered ==
    \A n \in Transfers :
       n < RunStart =>
          /\ Closes(n) # {}
          /\ Received(SubSeq(log, n, CloseOf(n))) = SizeOf(master_list[log[n].n])

\* C27 (re-run idempotence), amended: the same, for a first run every
\* transfer of which delivered exactly the size of its record.
C27_RerunIdempotentDelivered ==
    (RunStart > 0 /\ ~FirstRunFailed /\ FirstRunDelivered) => ~SecondRunActs

\* the second run has ended after a first run that transferred and copied,
\* and it has skipped every entry
C27_Witness ==
    /\ RunStart > 0
    /\ pc = "done"
    /\ ~FirstRunFailed
    /\ FirstRunDelivered
    /\ \E n \in 1..RunStart : log[n].e = "body"
    /\ \E n \in 1..RunStart : log[n].e = "copy"
    /\ master_list # <<>>
    /\ \A k \in 1..Len(master_list) : DidNow("skip", k)

----------------------------------------------------------------------------
(* Both filter flags (under SpecBuild).                                    *)

\* C28 (both filter flags set): when mandatory_pkg and optional_pkg are both
\* true, resolution adds no record, whatever the sub-feeds hold: the manifest
\* is empty at every moment of the run.
C28_BothFlagsEmpty ==
    (mandatory_pkg /\ optional_pkg) => master_list = <<>>

\* resolution has ended with both flags set, after mandatory and optional
\* entries were met
C28_Witness ==
    /\ mandatory_pkg
    /\ optional_pkg
    /\ pc = "loop"
    /\ master_list = <<>>
    /\ \E k \in 1..Len(seen) : seen[k].loop.pkg_mandatory
    /\ \E k \in 1..Len(seen) : ~seen[k].loop.pkg_mandatory

====
